---- MODULE Spec2Model ----
(***************************************************************************)
(* rest_toolbox: the optional/owner field filter of OptionalFieldsMixin    *)
(* (optional_fields.py) and the polymorphic dispatcher of                  *)
(* PolymorphicSerializer (polymorphic.py).                                 *)
(*                                                                         *)
(* Python values are modelled as follows.  Strings that the code takes     *)
(* apart (split, lower) are sequences of chunks; objects are atoms whose   *)
(* attributes live in ObjectAttrs; a dict or a class namespace is a        *)
(* function whose DOMAIN is the set of keys present; the outcome of a call *)
(* is Return(v) or Raise(exception).                                       *)
(***************************************************************************)
EXTENDS Naturals, Sequences, FiniteSets, TLC

VARIABLES serializer, outcome, classes, router, call

vars == <<serializer, outcome, classes, router, call>>

None == "None"

Return(v) == [kind |-> "return", value |-> v]

Raise(e) == [kind |-> "raise", value |-> e]

\* An exception: its class and its message.
Exc(type, msg) == [type |-> type, msg |-> msg]

AttributeError == Exc("AttributeError", "")

TypeError == Exc("TypeError", "")

KeyError == Exc("KeyError", "")

NoCall == [op |-> "none"]

EmptyDict == <<>>

(***************************************************************************)
(* Bounds of the model.                                                    *)
(***************************************************************************)
MaxParams == 1

MaxShowFuncs == 1

MaxClasses == 2

(***************************************************************************)
(* The objects serializers are bound to, and their attributes.             *)
(***************************************************************************)
Objects == {"Alice", "Root", "Post", "Prof", "Draft", "EmptyList"}

ObjectAttrs ==
    [o \in Objects |->
        CASE o = "Alice" -> [is_superuser |-> FALSE]
          [] o = "Root"  -> [is_superuser |-> TRUE]
          [] o = "Post"  -> [owner |-> "Alice", profile |-> "Prof"]
          [] o = "Prof"  -> [user |-> "Alice"]
          [] o = "Draft" -> [owner |-> "Root"]
          [] OTHER       -> EmptyDict]

FalsyObjects == {"EmptyList"}

\* Python truthiness of an instance: None and empty containers are falsy.
bool(obj) == obj # None /\ obj \notin FalsyObjects

\* str.split(sep) on a string given as a sequence of chunks.
RECURSIVE SplitFrom(_, _, _, _, _)
SplitFrom(s, sep, i, cur, acc) ==
    IF i > Len(s) THEN Append(acc, cur)
    ELSE IF s[i] = sep THEN SplitFrom(s, sep, i + 1, <<>>, Append(acc, cur))
    ELSE SplitFrom(s, sep, i + 1, Append(cur, s[i]), acc)

split(s, sep) == SplitFrom(s, sep, 1, <<>>, <<>>)

\* str.lower() on a string given as a sequence of characters.
LowerChar(c) ==
    CASE c = "T" -> "t" [] c = "R" -> "r" [] c = "U" -> "u" [] c = "E" -> "e"
      [] c = "Y" -> "y" [] c = "S" -> "s" [] c = "N" -> "n" [] c = "O" -> "o"
      [] OTHER -> c

lower(s) == [i \in DOMAIN s |-> LowerChar(s[i])]

\* rest_framework.fields.get_attribute on an object: getattr along the path.
\* A missing attribute raises AttributeError.  Releases of the framework
\* differ on a None met along the path: older ones return None there
\* (legacy), newer ones let getattr(None, attr) raise.
RECURSIVE get_attribute(_, _, _)
get_attribute(instance, attrs, legacy) ==
    IF attrs = <<>> THEN Return(instance)
    ELSE IF instance = None
         THEN IF legacy THEN Return(None) ELSE Raise(AttributeError)
    ELSE IF Len(Head(attrs)) # 1 \/ Head(attrs)[1] \notin DOMAIN ObjectAttrs[instance]
         THEN Raise(AttributeError)
    ELSE get_attribute(ObjectAttrs[instance][Head(attrs)[1]], Tail(attrs), legacy)

(***************************************************************************)
(* OptionalFieldsMixin                                                     *)
(***************************************************************************)
\* The fields super().get_fields() returns, in declaration order.
DeclaredFields == <<"username", "email", "profile">>

hasattr(ns, name) == name \in DOMAIN ns

\* getattr(self, 'Meta', None): a serializer without a Meta class yields None,
\* whose namespace has none of the names looked up on it.
MetaOf(ser) == IF ser.has_Meta THEN ser.Meta ELSE EmptyDict

\* getattr(meta, name) without default.
getattr_strict(ns, name) ==
    IF hasattr(ns, name) THEN Return(ns[name]) ELSE Raise(AttributeError)

\* getattr(meta, name, default)
getattr_default(ns, name, default) == IF hasattr(ns, name) THEN ns[name] ELSE default

\* try: ... except exc: handler
Except(got, exc, handler) ==
    IF got.kind = "raise" /\ got.value.type = exc THEN handler ELSE got

\* self.context.get('request', None)
RequestOf(ser) == getattr_default(ser.context, "request", None)

HasRequest(ser) == hasattr(ser.context, "request")

\* __init__: the assertion on owner_fields / owner_attr.
init_ok(meta) == hasattr(meta, "owner_attr") \/ ~hasattr(meta, "owner_fields")

get_owner_of(ser, obj, legacy) ==
    LET owner_attr == Except(getattr_strict(MetaOf(ser), "owner_attr"),
                             "KeyError", Return(None))
    IN  IF owner_attr.kind = "raise" THEN owner_attr
        ELSE IF owner_attr.value = <<"*">> THEN Return(obj)
        ELSE get_attribute(obj, split(owner_attr.value, "."), legacy)

\* user_is_owner without the superuser shortcut of lines 59-60.
user_is_owner_no_superuser(ser, user, obj, legacy) ==
    LET owner == get_owner_of(ser, obj, legacy)
    IN  IF owner.kind = "raise" THEN owner
        ELSE Return(user = owner.value)

user_is_owner(ser, user, obj, legacy) ==
    IF ObjectAttrs[user].is_superuser THEN Return(TRUE)
    ELSE LET owner == get_owner_of(ser, obj, legacy)
         IN  IF owner.kind = "raise" THEN owner
             ELSE Return(user = owner.value)

allow_field(ser, field_name, legacy) ==
    IF field_name \notin getattr_default(MetaOf(ser), "owner_fields", {})
    THEN Return(TRUE)
    ELSE IF ~hasattr(MetaOf(ser), "owner_fields") THEN Return(TRUE)
    ELSE IF ~HasRequest(ser) THEN Return(FALSE)
    ELSE user_is_owner(ser, RequestOf(ser).user, ser.instance, legacy)

get_show_field_param(field_name) == <<"show_", field_name, "_field">>

ShowFuncName(field_name) == <<"show_", field_name>>

TrueValues == {<<"1">>, <<"y">>, <<"t", "r", "u", "e">>}

\* The query-parameter step comparing the raw value, without .lower().
show_field_query_no_lower(ser, field_name) ==
    IF HasRequest(ser)
       /\ get_show_field_param(field_name) \in DOMAIN RequestOf(ser).query_params
    THEN Return(RequestOf(ser).query_params[get_show_field_param(field_name)]
                    \in TrueValues)
    ELSE Return(FALSE)

\* The query-parameter step of show_field (lines 109-115).
show_field_query(ser, field_name) ==
    IF HasRequest(ser)
       /\ get_show_field_param(field_name) \in DOMAIN RequestOf(ser).query_params
    THEN Return(lower(RequestOf(ser).query_params[get_show_field_param(field_name)])
                    \in TrueValues)
    ELSE Return(FALSE)

show_field(ser, field_name) ==
    IF ~bool(ser.instance) THEN Return(TRUE)
    ELSE IF ~ser.has_Meta THEN Raise(AttributeError)
    ELSE IF field_name \notin getattr_default(ser.Meta, "optional_fields", {})
    THEN Return(TRUE)
    ELSE IF /\ hasattr(ser.attrs, ShowFuncName(field_name))
            /\ ser.attrs[ShowFuncName(field_name)].callable
            /\ ser.attrs[ShowFuncName(field_name)].result # None
    THEN Return(ser.attrs[ShowFuncName(field_name)].result = "True")
    ELSE show_field_query(ser, field_name)

\* The loop of get_fields over the declared fields from position i on; kept is
\* what survives of the fields before i.
RECURSIVE FilterFrom(_, _, _, _)
FilterFrom(ser, i, kept, legacy) ==
    IF i > Len(DeclaredFields) THEN Return(kept)
    ELSE LET name == DeclaredFields[i]
             allow == allow_field(ser, name, legacy)
         IN  IF allow.kind = "raise" THEN allow
             ELSE IF ~allow.value THEN FilterFrom(ser, i + 1, kept, legacy)
             ELSE LET show == show_field(ser, name)
                  IN  IF show.kind = "raise" THEN show
                      ELSE IF show.value
                      THEN FilterFrom(ser, i + 1, Append(kept, name), legacy)
                      ELSE FilterFrom(ser, i + 1, kept, legacy)

get_fields(ser, legacy) == FilterFrom(ser, 1, <<>>, legacy)

(***************************************************************************)
(* PolymorphicSerializerMetaclass                                          *)
(*                                                                         *)
(* classes is the table of the classes created so far, in creation order;  *)
(* a class is [bases, ancestors, attrs], attrs being its namespace.  A     *)
(* Types entry is the pair <<instance type, serializer>>.                  *)
(***************************************************************************)
Discriminators == {"table", "couch"}

ConcreteTypes == {"Table", "Couch"}

ConcreteSerializers == {"TableSerializer", "CouchSerializer"}

\* The names every class body holds besides the declared ones.
PrivateNames == {"__module__"}

\* name.startswith('_')
startswith_underscore(name) == name \in PrivateNames

\* dict.update: the entries of e over those of d.
Update(d, e) ==
    [k \in DOMAIN d \cup DOMAIN e |-> IF k \in DOMAIN e THEN e[k] ELSE d[k]]

\* Lines 10-15: the public names of the local Types class.
LocalTypeFields(attrs) ==
    IF "Types" \in DOMAIN attrs
    THEN [name \in {n \in DOMAIN attrs["Types"] : ~startswith_underscore(n)}
             |-> attrs["Types"][name]]
    ELSE EmptyDict

\* Lines 19-21 with the update the other way round: the base's entries win.
MergeBase_parent_wins(table, base, fields) ==
    [fields |-> Update(fields, table[base].attrs["_type_fields"]), classes |-> table]

\* Lines 19-21 for one base that has _type_fields: the local entries over a
\* copy of the base's; the base's own dict is not touched.
MergeBase(table, base, fields) ==
    [fields |-> Update(table[base].attrs["_type_fields"], fields), classes |-> table]

\* Lines 17-21: the bases from the last to the first.
RECURSIVE MergeBases(_, _, _, _)
MergeBases(table, bases, i, fields) ==
    IF i = 0 THEN [fields |-> fields, classes |-> table]
    ELSE IF hasattr(table[bases[i]].attrs, "_type_fields")
    THEN LET step == MergeBase(table, bases[i], fields)
         IN  MergeBases(step.classes, bases, i - 1, step.fields)
    ELSE MergeBases(table, bases, i - 1, fields)

_get_type_fields(table, bases, attrs) ==
    MergeBases(table, bases, Len(bases), LocalTypeFields(attrs))

_get_declared_types(attrs) ==
    [name \in DOMAIN attrs["_type_fields"] |->
        <<attrs["_type_fields"][name][1], attrs["_type_fields"][name][2]>>]

\* A type-keyed dict that takes the name and the serializer of a type from
\* entries that need not be the same one.
_get_declared_classes_mixed(attrs) ==
    LET tf == attrs["_type_fields"]
        types == {tf[n][1] : n \in DOMAIN tf}
        names(c) == {n \in DOMAIN tf : tf[n][1] = c}
    IN  { [c \in types |-> <<pick[c][1], tf[pick[c][2]][2]>>] :
            pick \in {f \in [types -> (DOMAIN tf) \X (DOMAIN tf)] :
                        \A c \in types : f[c][1] \in names(c) /\ f[c][2] \in names(c)} }

\* The dicts the comprehension of lines 36-39 can build: for a type that
\* several discriminators name, the entry met last in the dict's iteration
\* order stays, and that order is not fixed by the code.
_get_declared_classes(attrs) ==
    LET tf == attrs["_type_fields"]
        types == {tf[n][1] : n \in DOMAIN tf}
    IN  { [c \in types |-> <<last[c], tf[last[c]][2]>>] :
            last \in {f \in [types -> DOMAIN tf] : \A c \in types : tf[f[c]][1] = c} }

\* The method resolution order exists: no base precedes one of its subclasses.
MROConsistent(table, bases) ==
    \A i, j \in DOMAIN bases : i < j => bases[i] \notin table[bases[j]].ancestors

\* The class tables __new__ (lines 41-45) can leave for a class with these
\* bases and this body.
NewClass(table, bases, attrs) ==
    LET merged == _get_type_fields(table, bases, attrs)
        attrs1 == ("_type_fields" :> merged.fields) @@ attrs
        attrs2 == ("_declared_types" :> _get_declared_types(attrs1)) @@ attrs1
    IN  { Append(merged.classes,
                 [bases |-> bases,
                  ancestors |-> UNION {{bases[i]} \cup table[bases[i]].ancestors
                                          : i \in DOMAIN bases},
                  attrs |-> ("_declared_classes" :> dc) @@ attrs2]) :
            dc \in _get_declared_classes(attrs2) }

BaseSerializer == 1

PolymorphicSerializer == 2

\* The classes after the module is imported: rest_framework's BaseSerializer,
\* and PolymorphicSerializer, which the metaclass has built already.
ImportedClasses ==
    CHOOSE t \in NewClass(<<[bases |-> <<>>, ancestors |-> {}, attrs |-> EmptyDict]>>,
                          <<BaseSerializer>>, EmptyDict) : TRUE

TypesTables ==
    UNION { [d -> ConcreteTypes \X ConcreteSerializers] : d \in SUBSET Discriminators }

\* The bodies of the classes the model declares: without a Types class, or
\* with one.
ClassBodies ==
    {EmptyDict} \cup {[Types |-> ("__module__" :> <<"app", "serializers">>) @@ t]
                         : t \in TypesTables}

BasesChoices(table) ==
    LET poly == {c \in DOMAIN table : hasattr(table[c].attrs, "_type_fields")}
    IN  {b \in {<<c>> : c \in poly} \cup (poly \X poly) :
            (Len(b) = 2 => b[1] # b[2]) /\ MROConsistent(table, b)}

ClassTablesAfter(table) ==
    UNION { NewClass(table, bases, body) :
              bases \in BasesChoices(table), body \in ClassBodies }

\* A class statement of a subclass of PolymorphicSerializer.
DefineClass ==
    /\ Len(classes) < PolymorphicSerializer + MaxClasses
    /\ classes' \in ClassTablesAfter(classes)
    /\ UNCHANGED <<serializer, outcome, router, call>>

(***************************************************************************)
(* PolymorphicSerializer                                                   *)
(*                                                                         *)
(* A data argument is Empty (rest_framework's `empty`) or Data(dict).      *)
(***************************************************************************)
Empty == [is_empty |-> TRUE]

Data(m) == [is_empty |-> FALSE, map |-> m]

NoTypeSpecified == Exc("ValidationError", "No type specified.")

BadType == Exc("ValidationError", "Bad type.")

\* The objects a polymorphic serializer is bound to, and instance.__class__.
RouterObjects == {"aTable", "aCouch", "aStool"}

class_of(obj) ==
    CASE obj = "aTable" -> "Table" [] obj = "aCouch" -> "Couch" [] OTHER -> "Stool"

\* __init__ (lines 70-77): the name of the discriminator field.
type_field_of(meta) == getattr_default(meta, "type_field", "type")

router_init_ok(meta) == ~hasattr(meta, "type_field") \/ type_field_of(meta) # "type"

\* rest_framework.fields.get_attribute on a mapping: instance[attr].
get_item(data, attrs) ==
    IF attrs[1] \in DOMAIN data THEN Return(data[attrs[1]]) ELSE Raise(KeyError)

\* dict.get(key, default)
dict_get(d, key, default) == IF key \in DOMAIN d THEN d[key] ELSE default

\* get_serializer_class returning, for an instance of a registered type, the
\* serializer of the first entry the loop meets, whatever its type.
get_serializer_class_any_type(ser, instance, data) ==
    LET declared_classes == classes[ser.cls].attrs["_declared_classes"]
        declared_types == classes[ser.cls].attrs["_declared_types"]
    IN  IF instance # None
        THEN IF class_of(instance) \in DOMAIN declared_classes
             THEN Return(declared_classes[CHOOSE c \in DOMAIN declared_classes : TRUE][2])
             ELSE Return(None)
        ELSE IF ~data.is_empty
        THEN LET type_value == Except(get_item(data.map, <<ser.type_field>>),
                                      "KeyError", Raise(NoTypeSpecified))
             IN  IF type_value.kind = "raise" THEN type_value
                 ELSE IF type_value.value \in DOMAIN declared_types
                 THEN Return(declared_types[type_value.value][2])
                 ELSE Return(None)
        ELSE Return(None)

\* Lines 79-96.  The two loops return the serializer of the one key that
\* equals the instance's class, or the discriminator value, if there is one.
get_serializer_class(ser, instance, data) ==
    LET declared_classes == classes[ser.cls].attrs["_declared_classes"]
        declared_types == classes[ser.cls].attrs["_declared_types"]
    IN  IF instance # None
        THEN IF class_of(instance) \in DOMAIN declared_classes
             THEN Return(declared_classes[class_of(instance)][2])
             ELSE Return(None)
        ELSE IF ~data.is_empty
        THEN LET type_value == Except(get_item(data.map, <<ser.type_field>>),
                                      "KeyError", Raise(NoTypeSpecified))
             IN  IF type_value.kind = "raise" THEN type_value
                 ELSE IF type_value.value \in DOMAIN declared_types
                 THEN Return(declared_types[type_value.value][2])
                 ELSE Return(None)
        ELSE Return(None)

\* serializer_class(**sargs): calling None raises TypeError.
Instantiate(serializer_class, sargs) ==
    IF serializer_class = None THEN Raise(TypeError)
    ELSE Return([cls |-> serializer_class, sargs |-> sargs])

\* Lines 99-106.
sargs_of(ser) ==
    IF ser.has_initial_data
    THEN [instance |-> ser.instance, data |-> ser.initial_data]
    ELSE [instance |-> ser.instance]

\* get_serializer that does not turn the TypeError into a validation error.
get_serializer_uncaught(ser, instance, data) ==
    LET serializer_class == get_serializer_class(ser, instance, data)
    IN  IF serializer_class.kind = "raise" THEN serializer_class
        ELSE Instantiate(serializer_class.value, sargs_of(ser))

\* Lines 98-111.
get_serializer(ser, instance, data) ==
    LET serializer_class == get_serializer_class(ser, instance, data)
    IN  IF serializer_class.kind = "raise" THEN serializer_class
        ELSE Except(Instantiate(serializer_class.value, sargs_of(ser)),
                    "TypeError", Raise(BadType))

\* The class of the concrete serializer a call got, None if it got none.
UsedBy(got) == IF got.kind = "return" THEN got.value.cls ELSE None

\* What the validation of a concrete serializer can do with a payload: reject
\* it, or return the data of its own fields, in which the discriminator is
\* absent (not one of its fields), as given, or rewritten.
ValidationBehaviours == {"invalid", "drops", "keeps", "rewrites"}

Invalid == Exc("ValidationError", "invalid")

concrete_run_validation(ser, data, behaviour) ==
    LET own == [k \in DOMAIN data \ {ser.type_field} |-> data[k]]
    IN  CASE behaviour = "invalid" -> Raise(Invalid)
          [] behaviour = "drops" -> Return(own)
          [] behaviour = "keeps" -> Return([k \in DOMAIN data |-> data[k]])
          [] OTHER -> Return((ser.type_field :> "rewritten") @@ own)

\* Lines 113-121 returning the concrete serializer's data as it is.
run_validation_no_stamp(ser, data, behaviour) ==
    LET payload == IF data.is_empty THEN ser.initial_data ELSE data.map
        concrete == get_serializer(ser, None, Data(payload))
    IN  IF concrete.kind = "raise" THEN concrete
        ELSE concrete_run_validation(ser, payload, behaviour)

\* Lines 113-121.  Called with empty, the payload is self.initial_data.
run_validation(ser, data, behaviour) ==
    LET payload == IF data.is_empty THEN ser.initial_data ELSE data.map
        type == dict_get(payload, ser.type_field, None)
        concrete == get_serializer(ser, None, Data(payload))
    IN  IF concrete.kind = "raise" THEN concrete
        ELSE LET validated == concrete_run_validation(ser, payload, behaviour)
             IN  IF validated.kind = "raise" THEN validated
                 ELSE Return(Update(validated.value, (ser.type_field :> type)))

\* The representation a concrete serializer gives: its own fields, among
\* which there may be one that has the name of the discriminator field.
concrete_to_representation(ser, instance, declares_type) ==
    IF declares_type
    THEN (ser.type_field :> "own") @@ [legs |-> "4"]
    ELSE [legs |-> "4"]

\* Lines 126-129.
to_representation(ser, instance, declares_type) ==
    LET concrete == get_serializer(ser, instance, Empty)
    IN  IF concrete.kind = "raise" THEN concrete
        ELSE Return(Update(concrete_to_representation(ser, instance, declares_type),
                           (ser.type_field :>
                              classes[ser.cls].attrs["_declared_classes"][class_of(instance)][1])))

\* Lines 123-124.
to_internal_value(ser, data) ==
    LET concrete == get_serializer(ser, None, Data(data))
    IN  IF concrete.kind = "raise" THEN concrete
        ELSE Return([k \in DOMAIN data \ {ser.type_field} |-> data[k]])

\* Lines 131-133: the object the concrete serializer creates.
create(ser, validated_data) ==
    LET concrete == get_serializer(ser, None, Data(validated_data))
    IN  IF concrete.kind = "raise" THEN concrete ELSE Return("created")

\* Lines 135-137.
update(ser, instance, validated_data) ==
    LET concrete == get_serializer(ser, instance, Empty)
    IN  IF concrete.kind = "raise" THEN concrete ELSE Return(instance)

(***************************************************************************)
(* The serializers the model constructs.                                   *)
(***************************************************************************)
OwnerFieldsChoices == {{"email"}, {"email", "profile"}}

OwnerAttrChoices == {<<"*">>, <<"owner">>, <<"profile", ".", "user">>}

OptionalFieldsChoices == {{"profile"}, {"email", "profile"}}

Metas ==
    { a @@ b @@ c :
        a \in {EmptyDict} \cup {[owner_fields |-> s] : s \in OwnerFieldsChoices},
        b \in {EmptyDict} \cup {[owner_attr |-> s] : s \in OwnerAttrChoices},
        c \in {EmptyDict} \cup {[optional_fields |-> s] : s \in OptionalFieldsChoices} }

Users == {"Alice", "Root"}

Instances == {None, "EmptyList", "Post", "Draft", "Alice"}

\* The fields that show functions and query parameters are given for.
ShownFields == {"email", "profile"}

QueryValues == {<<"1">>, <<"Y">>, <<"T", "r", "u", "e">>, <<"y", "e", "s">>}

\* The dicts with at most n keys from keys and values from values.
SmallDicts(keys, values, n) ==
    UNION { [d -> values] : d \in {s \in SUBSET keys : Cardinality(s) <= n} }

QueryParams ==
    SmallDicts({get_show_field_param(f) : f \in ShownFields}, QueryValues, MaxParams)

ShowFuncs ==
    SmallDicts({ShowFuncName(f) : f \in ShownFields},
               {[callable |-> FALSE, result |-> None]}
                  \cup {[callable |-> TRUE, result |-> r] : r \in {None, "True", "False"}},
               MaxShowFuncs)

Contexts ==
    {EmptyDict} \cup
    {[request |-> [user |-> u, query_params |-> q]] : u \in Users, q \in QueryParams}

Unbuilt == [state |-> "none"]

\* OptionalFieldsMixin.__init__
NewSerializer ==
    /\ serializer = Unbuilt
    /\ \E has_Meta \in BOOLEAN, meta \in Metas, ctx \in Contexts,
          inst \in Instances, attrs \in ShowFuncs :
          /\ has_Meta \/ meta = EmptyDict
          /\ serializer' =
                IF init_ok(meta)
                THEN [state |-> "ok", has_Meta |-> has_Meta, Meta |-> meta,
                      context |-> ctx, instance |-> inst, attrs |-> attrs]
                ELSE [state |-> "AssertionError"]
    /\ UNCHANGED <<outcome, classes, router, call>>

\* get_fields changes nothing of the serializer: one call is observed for each
\* serializer, under either behaviour of get_attribute on None.
GetFields ==
    /\ serializer.state = "ok"
    /\ outcome = NoCall
    /\ \E legacy \in BOOLEAN :
          outcome' = [op |-> "get_fields", got |-> get_fields(serializer, legacy)]
    /\ UNCHANGED <<serializer, classes, router, call>>

\* A direct call of get_owner_of on the bound instance.
GetOwnerOf ==
    /\ serializer.state = "ok"
    /\ outcome = NoCall
    /\ \E legacy \in BOOLEAN :
          outcome' = [op |-> "get_owner_of",
                      got |-> get_owner_of(serializer, serializer.instance, legacy)]
    /\ UNCHANGED <<serializer, classes, router, call>>

InitFields ==
    /\ serializer = Unbuilt
    /\ outcome = NoCall
    /\ classes = ImportedClasses
    /\ router = Unbuilt
    /\ call = NoCall

NextFields == NewSerializer \/ GetFields \/ GetOwnerOf

SpecFields == InitFields /\ [][NextFields]_vars

InitRegistry == InitFields

NextRegistry == DefineClass

SpecRegistry == InitRegistry /\ [][NextRegistry]_vars

(***************************************************************************)
(* The polymorphic serializers the model constructs and the calls on them. *)
(***************************************************************************)
TypeValues == {"table", "couch", "sofa"}

Payloads ==
    { a @@ b @@ c :
        a \in {EmptyDict} \cup {[type |-> v] : v \in TypeValues},
        b \in {EmptyDict} \cup {[kind |-> "couch"]},
        c \in {EmptyDict} \cup {[legs |-> "4"]} }

RouterMetas == {EmptyDict, [type_field |-> "kind"], [type_field |-> "type"]}

\* PolymorphicSerializer.__init__ on a subclass, with or without data.
NewRouter ==
    /\ router = Unbuilt
    /\ \E cls \in DOMAIN classes, meta \in RouterMetas,
          inst \in {None} \cup RouterObjects, data \in {Empty} \cup {Data(p) : p \in Payloads} :
          /\ hasattr(classes[cls].attrs, "_type_fields")
          /\ router' =
                IF router_init_ok(meta)
                THEN [state |-> "ok", cls |-> cls, type_field |-> type_field_of(meta),
                      instance |-> inst, has_initial_data |-> ~data.is_empty,
                      initial_data |-> IF data.is_empty THEN EmptyDict ELSE data.map]
                ELSE [state |-> "AssertionError"]
    /\ UNCHANGED <<serializer, outcome, classes, call>>

\* run_validation of a serializer that was given data, called without an
\* argument or, as is_valid() does, with the initial data.  The calls change
\* nothing of the serializer; call holds the last one.
RunValidation ==
    /\ router.state = "ok" /\ router.has_initial_data
    /\ call = NoCall
    /\ \E behaviour \in ValidationBehaviours, data \in {Empty, Data(router.initial_data)} :
          call' = [op |-> "run_validation", data |-> router.initial_data,
                   behaviour |-> behaviour,
                   used |-> UsedBy(get_serializer(router, None, Data(router.initial_data))),
                   got |-> run_validation(router, data, behaviour)]
    /\ UNCHANGED <<serializer, outcome, classes, router>>

ToInternalValue ==
    /\ router.state = "ok" /\ router.has_initial_data
    /\ call = NoCall
    /\ call' = [op |-> "to_internal_value", data |-> router.initial_data,
                used |-> UsedBy(get_serializer(router, None, Data(router.initial_data))),
                got |-> to_internal_value(router, router.initial_data)]
    /\ UNCHANGED <<serializer, outcome, classes, router>>

\* .data: to_representation of the bound instance.
ToRepresentation ==
    /\ router.state = "ok" /\ router.instance # None
    /\ call = NoCall
    /\ \E declares_type \in BOOLEAN :
          call' = [op |-> "to_representation", instance |-> router.instance,
                   used |-> UsedBy(get_serializer(router, router.instance, Empty)),
                   got |-> to_representation(router, router.instance, declares_type)]
    /\ UNCHANGED <<serializer, outcome, classes, router>>

\* save() without a bound instance, after a successful validation.
Create ==
    /\ router.state = "ok" /\ router.instance = None
    /\ call.op = "run_validation" /\ call.got.kind = "return"
    /\ call' = [op |-> "create", data |-> call.got.value,
                validated_by |-> call.used,
                used |-> UsedBy(get_serializer(router, None, Data(call.got.value))),
                got |-> create(router, call.got.value)]
    /\ UNCHANGED <<serializer, outcome, classes, router>>

\* save() with a bound instance, after a successful validation.
UpdateInstance ==
    /\ router.state = "ok" /\ router.instance # None
    /\ call.op = "run_validation" /\ call.got.kind = "return"
    /\ call' = [op |-> "update", data |-> call.data, instance |-> router.instance,
                validated_by |-> call.used,
                used |-> UsedBy(get_serializer(router, router.instance, Empty)),
                got |-> update(router, router.instance, call.got.value)]
    /\ UNCHANGED <<serializer, outcome, classes, router>>

\* A polymorphic serializer class has been declared.
InitRouter ==
    /\ serializer = Unbuilt
    /\ outcome = NoCall
    /\ classes \in ClassTablesAfter(ImportedClasses)
    /\ router = Unbuilt
    /\ call = NoCall

NextRouter ==
    \/ NewRouter
    \/ RunValidation
    \/ ToInternalValue
    \/ ToRepresentation
    \/ Create
    \/ UpdateInstance

SpecRouter == InitRouter /\ [][NextRouter]_vars

(***************************************************************************)
(* Properties of the field filter.                                         *)
(***************************************************************************)
GotFields == serializer.state = "ok" /\ outcome.op = "get_fields"

Returned == outcome.got.kind = "return"

Kept(f) == \E i \in DOMAIN outcome.got.value : outcome.got.value[i] = f

OwnerFieldsOf(ser) == getattr_default(MetaOf(ser), "owner_fields", {})

OptionalFieldsOf(ser) == getattr_default(MetaOf(ser), "optional_fields", {})

RequestUser == RequestOf(serializer).user

IsSuperuser(u) == ObjectAttrs[u].is_superuser

\* The owner of the bound instance resolves, to somebody else than the principal.
OwnedByAnother ==
    \E legacy \in BOOLEAN :
        LET owner == get_owner_of(serializer, serializer.instance, legacy)
        IN  owner.kind = "return" /\ owner.value # RequestUser

\* A callable show_<f> exists and its result is not None.
ShowFuncDecides(f) ==
    /\ ShowFuncName(f) \in DOMAIN serializer.attrs
    /\ serializer.attrs[ShowFuncName(f)].callable
    /\ serializer.attrs[ShowFuncName(f)].result # None

\* (b) a callable show_<f> exists and returns a non-null value that is true.
ShowFuncSaysShow(f) ==
    ShowFuncDecides(f) /\ serializer.attrs[ShowFuncName(f)].result = "True"

\* (c) the request has show_<f>_field with a value that lower-cased is 1, y or true.
QuerySaysShow(f) ==
    /\ HasRequest(serializer)
    /\ get_show_field_param(f) \in DOMAIN RequestOf(serializer).query_params
    /\ lower(RequestOf(serializer).query_params[get_show_field_param(f)])
          \in {<<"1">>, <<"y">>, <<"t", "r", "u", "e">>}

\* The optional-field rule as the code applies it: a field that is not
\* optional is shown; an optional one is shown when the instance is absent or
\* falsy, else when show_<f> decides so, else (show_<f> absent, not callable or
\* returning None) when the query parameter asks for it.
OptionalRuleShows(f) ==
    \/ f \notin OptionalFieldsOf(serializer)
    \/ ~bool(serializer.instance)
    \/ ShowFuncSaysShow(f)
    \/ ~ShowFuncDecides(f) /\ QuerySaysShow(f)

\* C1 as stated: for a field of Meta.owner_fields get_fields decides by
\* ownership alone: with a request of a superuser the field is kept; with a
\* request of a principal who is neither superuser nor the resolved owner it
\* is removed; without a request it is removed.
C1_OwnershipAlone ==
    GotFields =>
        \A f \in OwnerFieldsOf(serializer) :
            /\ (HasRequest(serializer) /\ IsSuperuser(RequestUser))
                  => (Returned /\ Kept(f))
            /\ (HasRequest(serializer) /\ ~IsSuperuser(RequestUser)
                  /\ OwnedByAnother /\ Returned) => ~Kept(f)
            /\ ~HasRequest(serializer) => (Returned /\ ~Kept(f))

\* C1 amended: as C1, but a superuser's request keeps the owner field exactly
\* when the optional-field rule does not hide it (it is not also listed in
\* optional_fields, or show_field shows it).
C1_OwnershipThenOptional ==
    GotFields =>
        \A f \in OwnerFieldsOf(serializer) :
            /\ (HasRequest(serializer) /\ IsSuperuser(RequestUser))
                  => (Returned /\ (Kept(f) <=> OptionalRuleShows(f)))
            /\ (HasRequest(serializer) /\ ~IsSuperuser(RequestUser)
                  /\ OwnedByAnother /\ Returned) => ~Kept(f)
            /\ ~HasRequest(serializer) => (Returned /\ ~Kept(f))

\* A superuser who is not the owner of the bound instance is shown the owner field.
C1_Witness ==
    /\ GotFields /\ Returned
    /\ HasRequest(serializer) /\ RequestUser = "Root"
    /\ serializer.instance = "Post"
    /\ "email" \in OwnerFieldsOf(serializer)
    /\ Kept("email")

\* C2 as stated: an optional field that is not owner-restricted is excluded
\* if and only if none of (a) no bound instance (self.instance is None or
\* falsy), (b) show_<f> returns a non-null true value, (c) the query parameter
\* asks for it, holds; so whenever (c) holds the field is shown.
C2_ExcludedIffNone ==
    (GotFields /\ Returned) =>
        \A f \in OptionalFieldsOf(serializer) \ OwnerFieldsOf(serializer) :
            ~Kept(f) <=> ~(\/ ~bool(serializer.instance)
                           \/ ShowFuncSaysShow(f)
                           \/ QuerySaysShow(f))

\* C2 amended: an optional field that is not owner-restricted is excluded if
\* and only if none of (a) no bound instance (None or falsy), (b) show_<f>
\* returns a non-null true value, (c) show_<f> is absent, not callable or
\* returns None, and the query parameter asks for it, holds: a non-null result
\* of show_<f> takes precedence over the query parameter.
C2_ShowFuncFirst ==
    (GotFields /\ Returned) =>
        \A f \in OptionalFieldsOf(serializer) \ OwnerFieldsOf(serializer) :
            ~Kept(f) <=> ~(\/ ~bool(serializer.instance)
                           \/ ShowFuncSaysShow(f)
                           \/ ~ShowFuncDecides(f) /\ QuerySaysShow(f))

\* A bound instance, show_profile returning None, and show_profile_field=Y:
\* the optional field is shown.
C2_Witness ==
    /\ GotFields /\ Returned
    /\ serializer.instance = "Post"
    /\ "profile" \in OptionalFieldsOf(serializer) \ OwnerFieldsOf(serializer)
    /\ ShowFuncName("profile") \in DOMAIN serializer.attrs
    /\ serializer.attrs[ShowFuncName("profile")] = [callable |-> TRUE, result |-> None]
    /\ HasRequest(serializer)
    /\ get_show_field_param("profile") \in DOMAIN RequestOf(serializer).query_params
    /\ RequestOf(serializer).query_params[get_show_field_param("profile")] = <<"Y">>
    /\ Kept("profile")

\* The dotted path names an attribute that is missing along the way from obj.
RECURSIVE PathMissing(_, _)
PathMissing(obj, names) ==
    /\ names # <<>>
    /\ obj \in Objects
    /\ \/ names[1] \notin DOMAIN ObjectAttrs[obj]
       \/ PathMissing(ObjectAttrs[obj][names[1]], Tail(names))

DottedNames(path) ==
    CASE path = <<"owner">> -> <<"owner">>
      [] path = <<"profile", ".", "user">> -> <<"profile", "user">>
      [] OTHER -> <<>>

OwnerUnresolvable ==
    \/ ~hasattr(MetaOf(serializer), "owner_attr")
    \/ PathMissing(serializer.instance, DottedNames(MetaOf(serializer).owner_attr))

\* C7: owner resolution never propagates a failure: without owner_attr, or
\* with a dotted path naming a missing attribute, get_owner_of yields None and
\* get_fields returns (hiding the owner field) instead of raising.
C7_NoOwnerIsNone ==
    (serializer.state = "ok" /\ serializer.has_Meta /\ OwnerUnresolvable) =>
        /\ outcome.op = "get_owner_of"
              => (outcome.got.kind = "return" /\ outcome.got.value = None)
        /\ outcome.op = "get_fields" => Returned

\* C9: without a bound instance get_fields removes no field, whatever the
\* request context.
C9_WriteCaseUnfiltered ==
    (GotFields /\ serializer.instance = None) => outcome.got = Return(DeclaredFields)

(***************************************************************************)
(* Properties of the registry.                                             *)
(***************************************************************************)
PolyClasses == {c \in DOMAIN classes : hasattr(classes[c].attrs, "_type_fields")}

TypeFields(c) == classes[c].attrs["_type_fields"]

DeclaredTypes(c) == classes[c].attrs["_declared_types"]

DeclaredClasses(c) == classes[c].attrs["_declared_classes"]

\* The discriminators the class body itself declares.
OwnTypes(c) ==
    IF "Types" \in DOMAIN classes[c].attrs
    THEN DOMAIN classes[c].attrs["Types"] \cap Discriminators
    ELSE {}

\* The bases of c that carry a registry and declare d, by position.
BasesWith(c, d) ==
    {i \in DOMAIN classes[c].bases :
        /\ classes[c].bases[i] \in PolyClasses
        /\ d \in DOMAIN TypeFields(classes[c].bases[i])}

LastBaseWith(c, d) ==
    classes[c].bases[CHOOSE i \in BasesWith(c, d) : \A j \in BasesWith(c, d) : j <= i]

MergedAsDeclared(c) ==
    /\ DOMAIN TypeFields(c) =
          OwnTypes(c) \cup {d \in Discriminators : BasesWith(c, d) # {}}
    /\ \A d \in OwnTypes(c) : TypeFields(c)[d] = classes[c].attrs["Types"][d]
    /\ \A d \in DOMAIN TypeFields(c) \ OwnTypes(c) :
          TypeFields(c)[d] = TypeFields(LastBaseWith(c, d))[d]

\* Each entry of the type-keyed view comes from one entry of the registry.
ClassesFromRegistry(c) ==
    /\ DOMAIN DeclaredClasses(c) = {TypeFields(c)[d][1] : d \in DOMAIN TypeFields(c)}
    /\ \A t \in DOMAIN DeclaredClasses(c) :
          /\ DeclaredClasses(c)[t][1] \in DOMAIN TypeFields(c)
          /\ TypeFields(c)[DeclaredClasses(c)[t][1]] = <<t, DeclaredClasses(c)[t][2]>>

\* C6: the merged registry of a class maps each discriminator of its own
\* Types to its own pair, each discriminator only bases declare to the pair of
\* the base (of several bases that have it, the last listed); both views are computed from the
\* merged table; and declaring a class leaves the classes before it unchanged.
C6_RegistryMerge ==
    /\ [](\A c \in PolyClasses :
            /\ MergedAsDeclared(c)
            /\ DeclaredTypes(c) = TypeFields(c)
            /\ ClassesFromRegistry(c))
    /\ [][\A c \in DOMAIN classes : classes'[c] = classes[c]]_vars

\* A subclass overrides one discriminator of its parent and inherits the other.
C6_Witness ==
    \E c \in PolyClasses : \E p \in PolyClasses :
        /\ classes[c].bases = <<p>>
        /\ OwnTypes(c) = {"table"}
        /\ DOMAIN TypeFields(p) = {"table", "couch"}
        /\ TypeFields(p)["table"] # TypeFields(c)["table"]
        /\ TypeFields(c)["couch"] = TypeFields(p)["couch"]

TypesUnique(c) ==
    \A d1, d2 \in DOMAIN DeclaredTypes(c) :
        d1 # d2 => DeclaredTypes(c)[d1][1] # DeclaredTypes(c)[d2][1]

ViewsInverse(c) ==
    /\ Cardinality(DOMAIN DeclaredTypes(c)) = Cardinality(DOMAIN DeclaredClasses(c))
    /\ \A d \in DOMAIN DeclaredTypes(c) :
          /\ DeclaredTypes(c)[d][1] \in DOMAIN DeclaredClasses(c)
          /\ DeclaredClasses(c)[DeclaredTypes(c)[d][1]] = <<d, DeclaredTypes(c)[d][2]>>
    /\ \A t \in DOMAIN DeclaredClasses(c) :
          /\ DeclaredClasses(c)[t][1] \in DOMAIN DeclaredTypes(c)
          /\ DeclaredTypes(c)[DeclaredClasses(c)[t][1]] = <<t, DeclaredClasses(c)[t][2]>>

\* C8 as stated: in every class the concrete types of the merged registry are
\* unique, and the two views have the same size and are inverse to each other.
C8_ViewsInverse == \A c \in PolyClasses : TypesUnique(c) /\ ViewsInverse(c)

\* C8 amended: discriminators are unique (the registry is a dict); the
\* type-keyed view has one entry for each concrete type of the registry, and
\* each of its entries t -> (d, S) has d -> (t, S) in the discriminator-keyed
\* view; the views have the same size and are inverse to each other exactly
\* when no two discriminators of the registry name the same type.
C8_ViewsInverseIffUnique ==
    \A c \in PolyClasses :
        /\ ClassesFromRegistry(c)
        /\ TypesUnique(c) <=> ViewsInverse(c)

\* A class whose two discriminators name one type: one entry by type.
C8_Witness ==
    \E c \in PolyClasses :
        /\ Cardinality(DOMAIN DeclaredTypes(c)) = 2
        /\ Cardinality(DOMAIN DeclaredClasses(c)) = 1
        /\ DeclaredTypes(c)["table"][2] # DeclaredTypes(c)["couch"][2]

(***************************************************************************)
(* Properties of the dispatch.                                             *)
(***************************************************************************)
Registry == TypeFields(router.cls)

Called(op) == router.state = "ok" /\ call.op = op

\* C3: the class that to_representation resolves for an instance is the class
\* that resolution by data returns for the stamped output.
C3_RoundTrip ==
    (Called("to_representation") /\ call.got.kind = "return") =>
        get_serializer_class(router, None, Data(call.got.value)) = Return(call.used)

\* An instance of a type that two discriminators name has been represented.
C3_Witness ==
    /\ Called("to_representation") /\ call.got.kind = "return"
    /\ Cardinality({d \in DOMAIN Registry : Registry[d][1] = class_of(call.instance)}) = 2
    /\ Registry["table"][2] # Registry["couch"][2]
    /\ call.got.value[router.type_field] \in Discriminators

\* C4: the mapping run_validation returns holds the discriminator key with
\* the value of the raw input, whatever the concrete serializer did with it.
C4_DiscriminatorKept ==
    (Called("run_validation") /\ call.got.kind = "return"
        /\ router.type_field \in DOMAIN call.data) =>
        /\ router.type_field \in DOMAIN call.got.value
        /\ call.got.value[router.type_field] = call.data[router.type_field]

\* The concrete serializer rewrote the discriminator, and another one dropped it.
C4_Witness ==
    /\ Called("run_validation") /\ call.got.kind = "return"
    /\ call.behaviour \in {"rewrites", "drops"}
    /\ router.type_field = "kind"
    /\ call.got.value["kind"] = "couch"

\* C5: resolution by data returns the serializer registered under the
\* payload's discriminator, or raises ValidationError 'No type specified.'
\* when the key is absent, or ValidationError 'Bad type.' when the value is
\* not registered; nothing else escapes and no other serializer is used.
C5_TotalResolution ==
    (router.state = "ok" /\ call.op \in {"run_validation", "to_internal_value", "create"}) =>
        LET tf == router.type_field
        IN  \/ /\ tf \notin DOMAIN call.data
               /\ call.got = Raise(NoTypeSpecified)
               /\ call.used = None
            \/ /\ tf \in DOMAIN call.data
               /\ call.data[tf] \notin DOMAIN Registry
               /\ call.got = Raise(BadType)
               /\ call.used = None
            \/ /\ tf \in DOMAIN call.data
               /\ call.data[tf] \in DOMAIN Registry
               /\ call.used = Registry[call.data[tf]][2]
               /\ \/ call.got.kind = "return"
                  \/ call.got.value.type = "ValidationError"

\* A payload whose discriminator is not registered was refused with 'Bad type.'
C5_Witness ==
    /\ Called("run_validation")
    /\ router.type_field \in DOMAIN call.data
    /\ call.data[router.type_field] = "sofa"
    /\ DOMAIN Registry = {"table", "couch"}
    /\ call.got = Raise(BadType)

\* C10 as stated: in run_validation followed by update, the class that
\* validated the payload is the class that performs the update, for every
\* payload discriminator and instance type of the registry (here: even of a
\* registry whose concrete types are unique).
C10_SameClass ==
    (Called("update") /\ call.got.kind = "return" /\ TypesUnique(router.cls))
        => call.used = call.validated_by

\* C10 amended: in run_validation followed by update, the class that
\* validated the payload is the class that performs the update whenever the
\* payload's discriminator is the one the type-keyed view holds for the exact
\* type of the instance (the value to_representation stamps).
C10_SameClassIfSameType ==
    (Called("update") /\ call.got.kind = "return"
        /\ call.data[router.type_field]
              = DeclaredClasses(router.cls)[class_of(call.instance)][1])
        => call.used = call.validated_by

\* An update of a Table by a payload of its own discriminator, in a registry
\* of two types.
C10_Witness ==
    /\ Called("update") /\ call.got.kind = "return"
    /\ Cardinality(DOMAIN DeclaredClasses(router.cls)) = 2
    /\ Registry["table"][2] # Registry["couch"][2]
    /\ call.data[router.type_field]
          = DeclaredClasses(router.cls)[class_of(call.instance)][1]
    /\ call.used = call.validated_by

====
